---- MODULE Spec2Model ----
(***************************************************************************)
(* A Streamlit session of the two NUTS3 dashboards of the repository:      *)
(*   variant "maps"       : src/Greek_Data_Maps.py (bilingual, texts       *)
(*                          looked up through tr())                        *)
(*   variant "population" : src/greek.population.map.py (f-string texts)   *)
(* One script run goes load_shapefile -> load_all_excels -> sidebar ->     *)
(* filter -> merge -> hover labels -> value range -> charts.  A user       *)
(* interaction reruns the script; the two loaders are memoised by          *)
(* st.cache_data.                                                          *)
(*                                                                         *)
(* Representation.                                                         *)
(*   - a cell of a table is a record [kind, v]: kind "val" (a value),      *)
(*     "nan" (a missing value) or "text" (a non-numeric string in a        *)
(*     numeric column);                                                    *)
(*   - a text that the code strips, joins or compares by character is a    *)
(*     sequence of one-character strings; a region code inside a label is  *)
(*     one token;                                                          *)
(*   - a number of the VALUE column is an integer count of 1/4000, so that *)
(*     1e-3 is 4, 0.5 is 2000, 1 is 4000 and the midpoint of two even      *)
(*     counts is exact.  Arithmetic is exact, not IEEE floating point.     *)
(***************************************************************************)
EXTENDS Integers, Sequences, FiniteSets, TLC

VARIABLES
    variant,        \* which script the session runs
    language,       \* st.session_state.language
    shapefile,      \* the boundary dataset at SHAPEFILE_PATH
    excelFolder,    \* the files of the directory EXCEL_FOLDER, in listdir order
    pc,             \* position of the current script run
    shpCache,       \* st.cache_data entry of load_shapefile(SHAPEFILE_PATH)
    xlsCache,       \* st.cache_data entry of load_all_excels(EXCEL_FOLDER)
    shpReads,       \* times gpd.read_file read the source in this session
    xlsReads,       \* times os.listdir/pd.read_excel read the folder
    shpCall,        \* outcome of this run's load_shapefile call
    xlsCall,        \* outcome of this run's load_all_excels call
    gdf_nuts3, df_all,
    errors,         \* st.error elements of this run
    warnings,       \* st.warning elements of this run
    uncaught,       \* exception that ended the run, "none" if none
    selected,       \* selected_year, selected_sex_display, selected_sex, selected_age
    df_filtered, merged_gdf,
    val_range,      \* <<val_min, val_max>>
    charts          \* what was handed to plotly: range_color, bar rows, title

vars == <<variant, language, shapefile, excelFolder, pc, shpCache, xlsCache,
          shpReads, xlsReads, shpCall, xlsCall, gdf_nuts3, df_all, errors,
          warnings, uncaught, selected, df_filtered, merged_gdf, val_range,
          charts>>

inputs == <<variant, language, shapefile, excelFolder>>

(***************************************************************************)
(* Bounds of the model.                                                    *)
(***************************************************************************)
MaxFiles == 2       \* files in the Excel folder
MaxRows == 2        \* rows of one Excel file
MaxReads == 2       \* reads of one source after which the user stops rerunning

(***************************************************************************)
(* Program constants.                                                      *)
(***************************************************************************)
NUTS3_LEVEL == 3
EPS == 4            \* 1e-3, the symmetric expansion of a constant range
NARROW == 4         \* 1e-3, the width below which a range is re-centred
HALF == 2000        \* 0.5
DEFAULT_MIN == 0
DEFAULT_MAX == 4000 \* 1

SHAPEFILE_KEY == "NUTS_ID"
EXCEL_KEY == "NUTS_ID"
YEAR_COL == "YEAR"
SEX_COL == "SEX"
AGE_COL == "age"
VALUE_COL == "VALUE"
NUTS_LEVEL_COL == "LEVL_CODE"
NAME_COLS == <<"NUTS_Level_1", "NUTS_Level_2", "NUTS_Level_3">>

(***************************************************************************)
(* Cells.                                                                  *)
(***************************************************************************)
Num(n) == [kind |-> "val", v |-> n]
Str(s) == [kind |-> "val", v |-> s]
NaNNum == [kind |-> "nan", v |-> 0]
NaNStr == [kind |-> "nan", v |-> ""]
NaNName == [kind |-> "nan", v |-> <<>>]
NotNumeric == [kind |-> "text", v |-> 0]
notna(cell) == cell.kind # "nan"

Range(s) == {s[i] : i \in 1..Len(s)}

RECURSIVE Flatten(_)
Flatten(ss) == IF ss = <<>> THEN <<>> ELSE Head(ss) \o Flatten(Tail(ss))

(***************************************************************************)
(* Texts.  translations[lang][key] is the template of Greek_Data_Maps.py   *)
(* l.37-106: its text (Greek transliterated), the number of positional     *)
(* "{}" fields and the set of named "{name}" fields it holds.              *)
(***************************************************************************)
Template(text, positional, named) ==
    [text |-> text, positional |-> positional, named |-> named]

translations ==
    [en |-> [error_loading_shapefile |-> Template("Error loading shapefile: {}", 1, {}),
             error_loading_excel |-> Template("Error loading Excel data: {}", 1, {}),
             success_message |-> Template("Please use the sidebar to filter the data as you please", 0, {}),
             no_excel_files |-> Template("No .xlsx files found in folder: {}", 1, {}),
             failed_read_excel |-> Template("Failed to read {}: {}", 2, {}),
             sex_female |-> Template("Female", 0, {}),
             sex_male |-> Template("Male", 0, {}),
             sex_total |-> Template("Total", 0, {}),
             bar_chart_title |-> Template("NUTS3 Bar Chart - Year={year}, Sex={sex}, Age={age}", 0, {"year", "sex", "age"})],
     el |-> [error_loading_shapefile |-> Template("Sfalma kata ti fortosi tou shapefile: {}", 1, {}),
             error_loading_excel |-> Template("Sfalma kata ti fortosi ton dedomenon Excel: {}", 1, {}),
             success_message |-> Template("Parakalo chrisimopoiiste ti gravata", 0, {}),
             no_excel_files |-> Template("Den vrethikan archeia .xlsx ston fakelo: {}", 1, {}),
             failed_read_excel |-> Template("Apotychia anagnosis tou {}: {}", 2, {}),
             sex_female |-> Template("Thilyko", 0, {}),
             sex_male |-> Template("Arseniko", 0, {}),
             sex_total |-> Template("Synolo", 0, {}),
             bar_chart_title |-> Template("Diagramma Baron NUTS3 - Etos={year}, Fylo={sex}, Ilikia={age}", 0, {"year", "sex", "age"})]]

\* str.format(**kwargs): no positional argument is passed, so a "{}" field
\* raises IndexError; a named field without its keyword raises KeyError.
format(t, kwargs) ==
    IF t.positional > 0 THEN [exc |-> "IndexError", text |-> ""]
    ELSE IF ~(t.named \subseteq kwargs) THEN [exc |-> "KeyError", text |-> ""]
    ELSE [exc |-> "none", text |-> t.text]

\* tr(key, **kwargs); kwargs is the set of keyword names passed.
tr(key, kwargs) ==
    LET text == translations[language][key]
    IN  IF kwargs # {} THEN format(text, kwargs)
        ELSE [exc |-> "none", text |-> text.text]

\* The text of a message: tr(key, ...) in Greek_Data_Maps.py, the f-string
\* `plain` in greek.population.map.py.
Text(key, kwargs, plain) ==
    IF variant = "maps" THEN tr(key, kwargs)
    ELSE [exc |-> "none", text |-> plain]

\* raise kind(m): the argument is evaluated first, and an exception of its
\* evaluation is the one that propagates.
Raise(kind, m, novalue) ==
    IF m.exc # "none" THEN [exc |-> m.exc, msg |-> "", value |-> novalue, warned |-> <<>>]
    ELSE [exc |-> kind, msg |-> m.text, value |-> novalue, warned |-> <<>>]

Return(value, warned) ==
    [exc |-> "none", msg |-> "", value |-> value, warned |-> warned]

(***************************************************************************)
(* load_shapefile                                                          *)
(***************************************************************************)
NoGdf == [columns |-> {}, crs |-> "none", rows |-> <<>>]

read_file(shp_path) == shapefile

\* pyproj's CRS.to_epsg(): the EPSG code, None for a CRS that has none.
to_epsg(crs) ==
    CASE crs = "EPSG:4326" -> "4326"
      [] crs = "EPSG:3035" -> "3035"
      [] OTHER -> "None"

\* A load that leaves every geometry in the CRS of the source.
ReprojectNever(crs) == crs

\* l.158-159: "none" is a source that declares no CRS (gdf_all.crs is None).

Reproject(crs) ==
    IF crs # "none" /\ to_epsg(crs) # "4326" THEN "EPSG:4326" ELSE crs

load_shapefile(shp_path) ==
    LET gdf_all == read_file(shp_path)
        nuts3 == [columns |-> gdf_all.columns,
                  crs |-> Reproject(gdf_all.crs),
                  rows |-> SelectSeq(gdf_all.rows,
                                     LAMBDA r : r[NUTS_LEVEL_COL] = NUTS3_LEVEL)]
    IN  IF NUTS_LEVEL_COL \notin gdf_all.columns
        THEN Raise("ValueError",
                   Text("error_loading_shapefile", {"error"},
                        "Shapefile missing 'LEVL_CODE' column."), NoGdf)
        ELSE IF SHAPEFILE_KEY \notin nuts3.columns
        THEN Raise("ValueError",
                   Text("error_loading_shapefile", {"error"},
                        "NUTS3 shapefile missing 'NUTS_ID' column."), NoGdf)
        ELSE Return(nuts3, <<>>)

(***************************************************************************)
(* load_all_excels                                                         *)
(***************************************************************************)
NoDf == [columns |-> {}, rows |-> <<>>]

ObsRow(id, year, sex, age, value, n1, n2, n3) ==
    [NUTS_ID |-> id, YEAR |-> year, SEX |-> sex, age |-> age, VALUE |-> value,
     NUTS_Level_1 |-> n1, NUTS_Level_2 |-> n2, NUTS_Level_3 |-> n3]

listdir(folder_path) == excelFolder

lower(ext) == IF ext = ".XLSX" THEN ".xlsx" ELSE ext

\* pd.read_excel of a file that parses: a column the sheet does not have
\* holds no value.
read_excel(f) ==
    [columns |-> f.columns,
     rows |-> [i \in 1..Len(f.rows) |->
        LET r == f.rows[i] IN
        ObsRow(IF EXCEL_KEY \in f.columns THEN r.NUTS_ID ELSE NaNStr,
               IF YEAR_COL \in f.columns THEN r.YEAR ELSE NaNNum,
               IF SEX_COL \in f.columns THEN r.SEX ELSE NaNStr,
               IF AGE_COL \in f.columns THEN r.age ELSE NaNStr,
               IF VALUE_COL \in f.columns THEN r.VALUE ELSE NaNNum,
               IF NAME_COLS[1] \in f.columns THEN r.NUTS_Level_1 ELSE NaNName,
               IF NAME_COLS[2] \in f.columns THEN r.NUTS_Level_2 ELSE NaNName,
               IF NAME_COLS[3] \in f.columns THEN r.NUTS_Level_3 ELSE NaNName)]]

\* The loop of l.181-188: df_list and the files warned about, or the
\* exception that left the loop.
RECURSIVE read_all(_, _, _)
read_all(files, df_list, warned) ==
    IF files = <<>>
    THEN [exc |-> "none", df_list |-> df_list, warned |-> warned]
    ELSE LET f == Head(files) IN
         IF f.parses
         THEN read_all(Tail(files), Append(df_list, read_excel(f)), warned)
         ELSE LET m == Text("failed_read_excel", {"file", "error"}, "Failed to read")
              IN  IF m.exc # "none"
                  THEN [exc |-> m.exc, df_list |-> df_list, warned |-> warned]
                  ELSE read_all(Tail(files), df_list, Append(warned, f.name))

\* pd.concat(df_list, ignore_index=True): the union of the columns.
concat(df_list) ==
    [columns |-> UNION {df_list[i].columns : i \in 1..Len(df_list)},
     rows |-> Flatten([i \in 1..Len(df_list) |-> df_list[i].rows])]

\* pd.to_numeric(errors="coerce") on one cell.
to_numeric(cell) == IF cell.kind = "text" THEN NaNNum ELSE cell

REQUIRED_COLS == <<EXCEL_KEY, YEAR_COL, SEX_COL, VALUE_COL>>

load_all_excels(folder_path) ==
    LET all_files == SelectSeq(listdir(folder_path),
                               LAMBDA f : lower(f.ext) = ".xlsx")
        loop == read_all(all_files, <<>>, <<>>)
        df_combined == concat(loop.df_list)
        missing == SelectSeq(REQUIRED_COLS, LAMBDA c : c \notin df_combined.columns)
        coerced == [columns |-> df_combined.columns,
                    rows |-> [i \in 1..Len(df_combined.rows) |->
                        [df_combined.rows[i] EXCEPT !.VALUE = to_numeric(@)]]]
    IN  IF all_files = <<>>
        THEN Raise("FileNotFoundError",
                   Text("no_excel_files", {"folder_path"},
                        "No .xlsx files found in folder"), NoDf)
        ELSE IF loop.exc # "none"
        THEN [exc |-> loop.exc, msg |-> "", value |-> NoDf, warned |-> loop.warned]
        ELSE IF loop.df_list = <<>>
        THEN [Raise("ValueError",
                    Text("error_loading_excel", {"error"},
                         "No valid Excel files were loaded."), NoDf)
              EXCEPT !.warned = loop.warned]
        ELSE IF missing # <<>>
        THEN [Raise("ValueError",
                    Text("error_loading_excel", {"error"},
                         "Combined DataFrame missing column"), NoDf)
              EXCEPT !.warned = loop.warned]
        ELSE Return(coerced, loop.warned)

(***************************************************************************)
(* Sidebar filters                                                         *)
(***************************************************************************)
\* sorted() of the categories the bounded inputs use (code point order).
SexOrder == <<"F", "M", "T", "Total", "X">>
AgeOrder == <<"TOTAL", "Y_LT5">>

\* sorted(df[col].dropna().unique()) of a text column.
sorted_unique(df, col, order) ==
    SelectSeq(order, LAMBDA s : \E i \in 1..Len(df.rows) : df.rows[i][col] = Str(s))

years_available(df) ==
    {df.rows[i][YEAR_COL].v : i \in {j \in 1..Len(df.rows) : notna(df.rows[j][YEAR_COL])}}

Min(S) == CHOOSE x \in S : \A y \in S : x <= y
Max(S) == CHOOSE x \in S : \A y \in S : x >= y

sexes_available(df) == sorted_unique(df, SEX_COL, SexOrder)
ages_available(df) == sorted_unique(df, AGE_COL, AgeOrder)

\* sex_translation_map.get(sex, sex), l.254-261; the population script shows
\* the category itself (l.148).
sex_label(sex) ==
    IF variant = "maps"
    THEN CASE sex = "F" -> tr("sex_female", {}).text
           [] sex = "M" -> tr("sex_male", {}).text
           [] sex = "T" -> tr("sex_total", {}).text
           [] OTHER -> sex
    ELSE sex

translated_sexes(df) ==
    [i \in 1..Len(sexes_available(df)) |-> sex_label(sexes_available(df)[i])]

\* sex_mapping[label], l.264 and l.282: a dict comprehension keeps the last
\* original of a label.
sex_mapping(df, label) ==
    LET labels == translated_sexes(df)
    IN  sexes_available(df)[Max({i \in 1..Len(labels) : labels[i] = label})]

\* The exception the sidebar section raises before any widget is drawn,
\* "none" if none: min() of no year (l.230), translated_sexes[0] of no sex
\* (l.268), df_all["age"] without that column (l.285), ages_available[0] of
\* no age group (l.289).
sidebar_exception(df) ==
    IF years_available(df) = {} THEN "ValueError"
    ELSE IF variant = "maps" /\ sexes_available(df) = <<>> THEN "IndexError"
    ELSE IF AGE_COL \notin df.columns THEN "KeyError"
    ELSE IF variant = "maps" /\ ages_available(df) = <<>> THEN "IndexError"
    ELSE "none"

NoSelection == [year |-> 0, sex_display |-> "", sex |-> "", age |-> ""]

\* A selectbox without options returns None.
OptionsOrNone(options) == IF options = <<>> THEN {"None"} ELSE Range(options)

(***************************************************************************)
(* Filter and merge                                                        *)
(***************************************************************************)
\* A filter that leaves the year out of the condition.
filter_any_year(df, sel) ==
    [columns |-> df.columns,
     rows |-> SelectSeq(df.rows, LAMBDA r :
                /\ r[SEX_COL] = Str(sel.sex)
                /\ r[AGE_COL] = Str(sel.age))]

\* l.320-324
filter(df, sel) ==
    [columns |-> df.columns,
     rows |-> SelectSeq(df.rows, LAMBDA r :
                /\ r[YEAR_COL] = Num(sel.year)
                /\ r[SEX_COL] = Str(sel.sex)
                /\ r[AGE_COL] = Str(sel.age))]

NaNObs == ObsRow(NaNStr, NaNNum, NaNStr, NaNStr, NaNNum, NaNName, NaNName, NaNName)

MergedRow(l, r) ==
    [NUTS_ID |-> l.NUTS_ID, LEVL_CODE |-> l.LEVL_CODE,
     YEAR |-> r.YEAR, SEX |-> r.SEX, age |-> r.age, VALUE |-> r.VALUE,
     NUTS_Level_1 |-> r.NUTS_Level_1, NUTS_Level_2 |-> r.NUTS_Level_2,
     NUTS_Level_3 |-> r.NUTS_Level_3,
     hover_parts |-> <<>>, hover_name |-> <<>>]

\* The right rows whose key equals the key of the left row l.
matches(l, right) ==
    SelectSeq(right.rows, LAMBDA r : notna(r[EXCEL_KEY]) /\ r[EXCEL_KEY] = l[SHAPEFILE_KEY])

\* An inner join: a Region without a match is dropped.
inner_rows(l, right) ==
    [i \in 1..Len(matches(l, right)) |-> MergedRow(l, matches(l, right)[i])]

\* The rows a left join gives for l: one per match, and one without values
\* if there is no match.
left_rows(l, right) ==
    IF matches(l, right) = <<>> THEN <<MergedRow(l, NaNObs)>>
    ELSE [i \in 1..Len(matches(l, right)) |-> MergedRow(l, matches(l, right)[i])]

\* gdf_nuts3.merge(df_filtered, how="left", left_on=..., right_on=...)
merge(left, right) ==
    [columns |-> left.columns \cup right.columns,
     crs |-> left.crs,
     rows |-> Flatten([i \in 1..Len(left.rows) |-> left_rows(left.rows[i], right)])]

(***************************************************************************)
(* Hover labels                                                            *)
(***************************************************************************)
RECURSIVE lstrip(_)
lstrip(s) == IF s # <<>> /\ Head(s) = " " THEN lstrip(Tail(s)) ELSE s

RECURSIVE rstrip(_)
rstrip(s) ==
    IF s # <<>> /\ s[Len(s)] = " " THEN rstrip(SubSeq(s, 1, Len(s) - 1)) ELSE s

strip(s) == rstrip(lstrip(s))

\* str(x) of a name cell: a missing value (float nan) prints as "nan".
str(cell) == IF cell.kind = "nan" THEN <<"n", "a", "n">> ELSE cell.v

\* str(row.get(key, "")).strip()
get_stripped(row, columns, key) ==
    IF key \in columns THEN strip(str(row[key])) ELSE <<>>

\* items, l.342-346
name_items(row, columns) ==
    [i \in 1..Len(NAME_COLS) |-> get_stripped(row, columns, NAME_COLS[i])]

\* [x for x in items if x and pd.notna(x)], l.348: x is a str, and pd.notna
\* of a str is True.
remove_blanks(items) == SelectSeq(items, LAMBDA x : x # <<>>)

RECURSIVE dedupe(_, _)
dedupe(items, used) ==
    IF items = <<>> THEN used
    ELSE dedupe(Tail(items),
                IF Head(items) \in Range(used) THEN used
                ELSE Append(used, Head(items)))

RECURSIVE dedupe_consecutive(_, _)
dedupe_consecutive(items, used) ==
    IF items = <<>> THEN used
    ELSE dedupe_consecutive(Tail(items),
                IF used # <<>> /\ Head(items) = used[Len(used)] THEN used
                ELSE Append(used, Head(items)))

\* A loop that compares a fragment with the one before it only.
RemoveConsecutiveDuplicates(items) == dedupe_consecutive(items, <<>>)

\* The loop of l.351-354.
RemoveDuplicates(items) == dedupe(items, <<>>)

\* " - ".join(used)
RECURSIVE join(_)
join(used) ==
    IF used = <<>> THEN <<>>
    ELSE IF Len(used) = 1 THEN used[1]
    ELSE used[1] \o <<" ", "-", " ">> \o join(Tail(used))

used_names(row, columns) == RemoveDuplicates(remove_blanks(name_items(row, columns)))

\* f" ({nuts_id})" of combine_nuts_names_with_code, l.357-361; the code is
\* one token of the label.
code_suffix(row, columns) ==
    IF /\ variant = "maps"
       /\ SHAPEFILE_KEY \in columns
       /\ notna(row[SHAPEFILE_KEY])
       /\ row[SHAPEFILE_KEY].v # ""
    THEN <<" ", "(", row[SHAPEFILE_KEY].v, ")">>
    ELSE <<>>

\* combine_nuts_names (population) and combine_nuts_names_with_code (maps)
combine_nuts_names(row, columns) ==
    join(used_names(row, columns)) \o code_suffix(row, columns)

(***************************************************************************)
(* Value range                                                             *)
(***************************************************************************)
\* merged_gdf[VALUE_COL].dropna()
present_values(gdf) ==
    {gdf.rows[i][VALUE_COL].v :
        i \in {j \in 1..Len(gdf.rows) : gdf.rows[j][VALUE_COL].kind = "val"}}

\* A derivation that leaves a constant or narrow range as it is.
ExpandNothing(lo, hi) == <<lo, hi>>

\* l.380-386
\* An expansion that recentres every range whose ends differ, whatever its width.
ExpandWithoutThreshold(lo, hi) ==
    IF lo = hi THEN <<lo - EPS, hi + EPS>>
    ELSE LET mid == (lo + hi) \div 2 IN <<mid - HALF, mid + HALF>>

ExpandRange(lo, hi) ==
    IF lo = hi THEN <<lo - EPS, hi + EPS>>
    ELSE IF hi - lo < NARROW
         THEN LET mid == (lo + hi) \div 2 IN <<mid - HALF, mid + HALF>>
         ELSE <<lo, hi>>

\* l.375-386
value_range(gdf) ==
    LET vals == present_values(gdf)
    IN  ExpandRange(IF vals # {} THEN Min(vals) ELSE DEFAULT_MIN,
                    IF vals # {} THEN Max(vals) ELSE DEFAULT_MAX)

NoRange == <<0, 0>>

(***************************************************************************)
(* Charts                                                                  *)
(***************************************************************************)
\* l.452-456; the population script puts selected_sex itself in the title.
translated_sex_title(sex) ==
    IF variant = "maps"
    THEN IF sex = "F" THEN tr("sex_female", {}).text
         ELSE IF sex = "M" THEN tr("sex_male", {}).text
         ELSE tr("sex_total", {}).text
    ELSE sex

\* df_bar, l.443-445: the filtered rows of a known region that hold a value.
bar_rows(filtered, gdf) ==
    SelectSeq(filtered.rows, LAMBDA r :
        /\ \E i \in 1..Len(gdf.rows) : gdf.rows[i][SHAPEFILE_KEY] = r[EXCEL_KEY]
        /\ notna(r[VALUE_COL]))

NoCharts == [drawn |-> FALSE, range_color |-> NoRange, bar |-> <<>>, title_sex |-> ""]

(***************************************************************************)
(* Inputs of a session.  The sources are drawn from five families, each    *)
(* varying one part of the input and keeping the rest well-formed.         *)
(***************************************************************************)
Variants == {"maps", "population"}
Languages == {"en", "el"}
CRSs == {"none", "EPSG:4326", "EPSG:3035", "custom"}

SeqsUpTo(S, n) == UNION {[1..k -> S] : k \in 0..n}

RegionRow(id, lvl) == [NUTS_ID |-> Str(id), LEVL_CODE |-> lvl]
Regions1 == <<RegionRow("EL301", NUTS3_LEVEL)>>
Regions2 == <<RegionRow("EL30", NUTS3_LEVEL - 1), RegionRow("EL301", NUTS3_LEVEL),
              RegionRow("EL302", NUTS3_LEVEL)>>

Shapefile(columns, crs, rows) == [columns |-> columns, crs |-> crs, rows |-> rows]
GoodShapefile(rows) == Shapefile({SHAPEFILE_KEY, NUTS_LEVEL_COL, "geometry"}, "EPSG:3035", rows)

ALL_XLS_COLS == {EXCEL_KEY, YEAR_COL, SEX_COL, AGE_COL, VALUE_COL} \cup Range(NAME_COLS)

Name(chars) == [kind |-> "val", v |-> chars]

\* An observation of sex T and age group Y_LT5 named "A", "A", "B".
Obs(id, year, value) ==
    ObsRow(Str(id), Num(year), Str("T"), Str("Y_LT5"), value,
           Name(<<"A">>), Name(<<"A">>), Name(<<"B">>))

Sheet(ext, parses, columns, rows) ==
    [ext |-> ext, parses |-> parses, columns |-> columns, rows |-> rows]

\* The files of a folder are named by their place in the listing.
Folder(sheets) ==
    [i \in 1..Len(sheets) |->
        [name |-> i, ext |-> sheets[i].ext, parses |-> sheets[i].parses,
         columns |-> sheets[i].columns, rows |-> sheets[i].rows]]

GoodSheet(rows) == Sheet(".xlsx", TRUE, ALL_XLS_COLS, rows)

\* Family 1: the schema and the CRS of the boundary dataset vary.
ShapefileInputs ==
    {Shapefile(cols \cup {"geometry"}, crs, rows) :
        cols \in SUBSET {SHAPEFILE_KEY, NUTS_LEVEL_COL},
        crs \in CRSs, rows \in {Regions1, Regions2}}

\* Family 2: the files of the folder vary: not a workbook, unreadable, well
\* formed, holding a non-numeric value, lacking one column, without rows.
SheetKinds ==
    {Sheet(".txt", FALSE, {}, <<>>),
     Sheet(".xlsx", FALSE, {}, <<>>),
     GoodSheet(<<Obs("EL301", 2020, Num(8000))>>),
     Sheet(".XLSX", TRUE, ALL_XLS_COLS, <<Obs("EL302", 2020, NotNumeric)>>),
     GoodSheet(<<>>)}
    \cup {Sheet(".xlsx", TRUE, ALL_XLS_COLS \ {c}, <<Obs("EL302", 2022, Num(0))>>) :
            c \in {EXCEL_KEY, YEAR_COL, SEX_COL, VALUE_COL, AGE_COL}}

FolderInputs == {Folder(sheets) : sheets \in SeqsUpTo(SheetKinds, MaxFiles)}

\* Family 3: the observations of one well-formed file vary in region and
\* year, so that a selection matches none, one or several per region.
JoinRows ==
    {Obs(id, year, Num(v)) : id \in {"EL301", "EL302"}, year \in {2020, 2022},
                             v \in {0, 8000}}

\* Family 4: the values of the observations of one year vary.
RangeRows ==
    {Obs(id, 2020, value) : id \in {"EL301", "EL302"},
                            value \in {NaNNum, Num(0), Num(2), Num(4), Num(168000)}}

\* Family 5: the three names of one observation vary; a name column may be
\* absent from the sheet.
NameCells ==
    {NaNName, Name(<<>>), Name(<<" ">>), Name(<<"A">>), Name(<<" ", "A", " ">>),
     Name(<<"B">>), Name(<<"A", " ", "B">>)}
NameChoices == NameCells \cup {[kind |-> "absent", v |-> <<>>]}

NameSheet(n1, n2, n3) ==
    Sheet(".xlsx", TRUE,
          {EXCEL_KEY, YEAR_COL, SEX_COL, AGE_COL, VALUE_COL}
              \cup {NAME_COLS[i] : i \in {j \in 1..3 : <<n1, n2, n3>>[j].kind # "absent"}},
          <<ObsRow(Str("EL301"), Num(2020), Str("T"), Str("Y_LT5"), Num(0),
                   IF n1.kind = "absent" THEN NaNName ELSE n1,
                   IF n2.kind = "absent" THEN NaNName ELSE n2,
                   IF n3.kind = "absent" THEN NaNName ELSE n3)>>)

\* Family 6: one Region EL301 and one Observation (EL301, 2020, T, Y_LT5, 1000).
ExampleSource ==
    <<GoodShapefile(Regions1),
      Folder(<<GoodSheet(<<Obs("EL301", 2020, Num(4000000))>>)>>)>>

\* Family 7: the sex categories of the observations of one region and year
\* vary: the recognised F, M, T and the unrecognised X and Total.
SexRows ==
    {ObsRow(Str("EL301"), Num(2020), Str(sex), Str("Y_LT5"), Num(8000),
            Name(<<"A">>), Name(<<"A">>), Name(<<"B">>)) :
        sex \in {"F", "M", "T", "X", "Total"}}

Sources ==
    {<<shp, Folder(<<GoodSheet(<<Obs("EL301", 2020, Num(8000))>>)>>)>> :
        shp \in ShapefileInputs}
    \cup {<<GoodShapefile(Regions2), folder>> : folder \in FolderInputs}
    \cup {<<GoodShapefile(regions), Folder(<<GoodSheet(rows)>>)>> :
            regions \in {Regions1, Regions2}, rows \in SeqsUpTo(JoinRows, MaxRows)}
    \cup {<<GoodShapefile(Regions2), Folder(<<GoodSheet(rows)>>)>> :
            rows \in SeqsUpTo(RangeRows, MaxRows)}
    \cup {<<GoodShapefile(Regions2), Folder(<<NameSheet(n1, n2, n3)>>)>> :
            n1 \in NameChoices, n2 \in NameChoices, n3 \in NameChoices}
    \cup {ExampleSource}
    \cup {<<GoodShapefile(Regions1), Folder(<<GoodSheet(rows)>>)>> :
            rows \in SeqsUpTo(SexRows, MaxRows)}

(***************************************************************************)
(* The session                                                             *)
(***************************************************************************)
NoCache(novalue) == [filled |-> FALSE, value |-> novalue, warned |-> <<>>]
NoCall == [called |-> FALSE, cached |-> FALSE, exc |-> "none"]

\* A cache that never finds an entry: every call runs the function.
cache_never_hit(cache) == FALSE

\* @st.cache_data, l.151 and l.174: a call with the arguments of an earlier
\* call that returned is answered from the cache.  A call that raised left
\* no entry.
cache_hit(cache) == cache.filled

\* The variables of a script run before its first statement.
FreshRun ==
    /\ pc' = "load_shapefile"
    /\ shpCall' = NoCall /\ xlsCall' = NoCall
    /\ gdf_nuts3' = NoGdf /\ df_all' = NoDf
    /\ errors' = <<>> /\ warnings' = <<>> /\ uncaught' = "none"
    /\ selected' = NoSelection
    /\ df_filtered' = NoDf /\ merged_gdf' = NoGdf
    /\ val_range' = NoRange /\ charts' = NoCharts

Init ==
    /\ variant \in Variants
    /\ language = "en"
    /\ \E src \in Sources : shapefile = src[1] /\ excelFolder = src[2]
    /\ pc = "load_shapefile"
    /\ shpCache = NoCache(NoGdf) /\ xlsCache = NoCache(NoDf)
    /\ shpReads = 0 /\ xlsReads = 0
    /\ shpCall = NoCall /\ xlsCall = NoCall
    /\ gdf_nuts3 = NoGdf /\ df_all = NoDf
    /\ errors = <<>> /\ warnings = <<>> /\ uncaught = "none"
    /\ selected = NoSelection
    /\ df_filtered = NoDf /\ merged_gdf = NoGdf
    /\ val_range = NoRange /\ charts = NoCharts

\* except Exception as e: st.error(<text>); st.stop() -- l.212-214, l.220-222.
\* The text is evaluated first; if that raises, nothing is shown and the new
\* exception ends the run uncaught.
HandleLoadError(key, plain) ==
    LET m == Text(key, {"error"}, plain)
    IN  IF m.exc = "none"
        THEN /\ errors' = Append(errors, key)
             /\ pc' = "stopped"
             /\ UNCHANGED uncaught
        ELSE /\ uncaught' = m.exc
             /\ pc' = "crashed"
             /\ UNCHANGED errors

\* l.209-214: gdf_nuts3 = load_shapefile(SHAPEFILE_PATH) under st.cache_data.
LoadShapefile ==
    /\ pc = "load_shapefile"
    /\ LET hit == cache_hit(shpCache)
           call == IF hit THEN Return(shpCache.value, <<>>)
                   ELSE load_shapefile("SHAPEFILE_PATH")
       IN  /\ shpReads' = IF hit THEN shpReads ELSE shpReads + 1
           /\ shpCache' = IF ~hit /\ call.exc = "none"
                          THEN [filled |-> TRUE, value |-> call.value, warned |-> <<>>]
                          ELSE shpCache
           /\ shpCall' = [called |-> TRUE, cached |-> hit, exc |-> call.exc]
           /\ gdf_nuts3' = call.value
           /\ IF call.exc = "none"
              THEN pc' = "load_excels" /\ UNCHANGED <<errors, uncaught>>
              ELSE HandleLoadError("error_loading_shapefile", "Error loading shapefile")
    /\ UNCHANGED <<inputs, xlsCache, xlsReads, xlsCall, df_all, warnings, selected,
                   df_filtered, merged_gdf, val_range, charts>>

\* l.216-222: df_all = load_all_excels(EXCEL_FOLDER) under st.cache_data,
\* which replays the cached call's st.warning elements on a hit.
LoadExcels ==
    /\ pc = "load_excels"
    /\ LET hit == cache_hit(xlsCache)
           call == IF hit THEN Return(xlsCache.value, xlsCache.warned)
                   ELSE load_all_excels("EXCEL_FOLDER")
       IN  /\ xlsReads' = IF hit THEN xlsReads ELSE xlsReads + 1
           /\ xlsCache' = IF ~hit /\ call.exc = "none"
                          THEN [filled |-> TRUE, value |-> call.value, warned |-> call.warned]
                          ELSE xlsCache
           /\ xlsCall' = [called |-> TRUE, cached |-> hit, exc |-> call.exc]
           /\ df_all' = call.value
           /\ warnings' = warnings \o call.warned
           /\ IF call.exc = "none"
              THEN pc' = "sidebar" /\ UNCHANGED <<errors, uncaught>>
              ELSE HandleLoadError("error_loading_excel", "Error loading Excel data")
    /\ UNCHANGED <<inputs, shpCache, shpReads, shpCall, gdf_nuts3, selected,
                   df_filtered, merged_gdf, val_range, charts>>

\* Sidebar section: the widgets return any value they offer.  The slider
\* offers every integer of [min_year, max_year].
SidebarFilters ==
    /\ pc = "sidebar"
    /\ IF sidebar_exception(df_all) # "none"
       THEN /\ uncaught' = sidebar_exception(df_all)
            /\ pc' = "crashed"
            /\ UNCHANGED selected
       ELSE /\ \E year \in Min(years_available(df_all))..Max(years_available(df_all)),
                  display \in OptionsOrNone(translated_sexes(df_all)),
                  age \in OptionsOrNone(ages_available(df_all)) :
                    selected' = [year |-> year, sex_display |-> display,
                                 sex |-> IF display = "None" THEN "None"
                                         ELSE sex_mapping(df_all, display),
                                 age |-> age]
            /\ pc' = "filter"
            /\ UNCHANGED uncaught
    /\ UNCHANGED <<inputs, shpCache, xlsCache, shpReads, xlsReads, shpCall, xlsCall,
                   gdf_nuts3, df_all, errors, warnings, df_filtered, merged_gdf,
                   val_range, charts>>

\* Filter Data section.
FilterData ==
    /\ pc = "filter"
    /\ df_filtered' = filter(df_all, selected)
    /\ pc' = "merge"
    /\ UNCHANGED <<inputs, shpCache, xlsCache, shpReads, xlsReads, shpCall, xlsCall,
                   gdf_nuts3, df_all, errors, warnings, uncaught, selected,
                   merged_gdf, val_range, charts>>

\* Merge with Shapefile section.
MergeData ==
    /\ pc = "merge"
    /\ merged_gdf' = merge(gdf_nuts3, df_filtered)
    /\ pc' = "labels"
    /\ UNCHANGED <<inputs, shpCache, xlsCache, shpReads, xlsReads, shpCall, xlsCall,
                   gdf_nuts3, df_all, errors, warnings, uncaught, selected,
                   df_filtered, val_range, charts>>

\* merged_gdf["hover_name"] = merged_gdf.apply(combine_nuts_names..., axis=1)
HoverLabels ==
    /\ pc = "labels"
    /\ merged_gdf' =
         [merged_gdf EXCEPT
            !.columns = @ \cup {"hover_name"},
            !.rows = [i \in 1..Len(merged_gdf.rows) |->
                [merged_gdf.rows[i] EXCEPT
                    !.hover_parts = used_names(merged_gdf.rows[i], merged_gdf.columns),
                    !.hover_name = combine_nuts_names(merged_gdf.rows[i],
                                                      merged_gdf.columns)]]]
    /\ pc' = "range"
    /\ UNCHANGED <<inputs, shpCache, xlsCache, shpReads, xlsReads, shpCall, xlsCall,
                   gdf_nuts3, df_all, errors, warnings, uncaught, selected,
                   df_filtered, val_range, charts>>

\* val_min, val_max of the Choropleth Map section.
ValueRange ==
    /\ pc = "range"
    /\ val_range' = value_range(merged_gdf)
    /\ pc' = "charts"
    /\ UNCHANGED <<inputs, shpCache, xlsCache, shpReads, xlsReads, shpCall, xlsCall,
                   gdf_nuts3, df_all, errors, warnings, uncaught, selected,
                   df_filtered, merged_gdf, charts>>

\* px.choropleth_mapbox and px.bar with range_color=(val_min, val_max).
Charts ==
    /\ pc = "charts"
    /\ charts' = [drawn |-> TRUE, range_color |-> val_range,
                  bar |-> bar_rows(df_filtered, gdf_nuts3),
                  title_sex |-> translated_sex_title(selected.sex)]
    /\ pc' = "done"
    /\ UNCHANGED <<inputs, shpCache, xlsCache, shpReads, xlsReads, shpCall, xlsCall,
                   gdf_nuts3, df_all, errors, warnings, uncaught, selected,
                   df_filtered, merged_gdf, val_range>>

\* A user interaction reruns the script from its first line; the caches
\* survive.  Greek_Data_Maps.py reads the language widget first (l.117-125).
\* The user gives up once a source has been read MaxReads times.
Rerun ==
    /\ pc \in {"done", "stopped", "crashed"}
    /\ shpReads < MaxReads /\ xlsReads < MaxReads
    /\ language' \in (IF variant = "maps" THEN Languages ELSE {language})
    /\ FreshRun
    /\ UNCHANGED <<variant, shapefile, excelFolder, shpCache, xlsCache, shpReads,
                   xlsReads>>

Next ==
    \/ LoadShapefile
    \/ LoadExcels
    \/ SidebarFilters
    \/ FilterData
    \/ MergeData
    \/ HoverLabels
    \/ ValueRange
    \/ Charts
    \/ Rerun

Spec == Init /\ [][Next]_vars

(***************************************************************************)
(* Properties                                                              *)
(***************************************************************************)
Merged == pc \in {"labels", "range", "charts", "done"}
Labelled == pc \in {"range", "charts", "done"}
Ranged == pc \in {"charts", "done"}

\* The regions load_shapefile keeps and the workbooks load_all_excels sees.
XlsxFiles == SelectSeq(excelFolder, LAMBDA f : f.ext \in {".xlsx", ".XLSX"})
ParsedFiles == SelectSeq(XlsxFiles, LAMBDA f : f.parses)
FailedFiles == SelectSeq(XlsxFiles, LAMBDA f : ~f.parses)
ParsedColumns == UNION {ParsedFiles[i].columns : i \in 1..Len(ParsedFiles)}
RequiredPresent == Range(REQUIRED_COLS) \subseteq ParsedColumns

\* The rows of the files that parsed, in listing order, VALUE numeric.
ParsedRows ==
    Flatten([i \in 1..Len(ParsedFiles) |->
        [j \in 1..Len(ParsedFiles[i].rows) |->
            [read_excel(ParsedFiles[i]).rows[j] EXCEPT !.VALUE = to_numeric(@)]]])

\* Number of rows of a table whose key is the code id.
CountKey(rows, id) == Cardinality({i \in 1..Len(rows) : rows[i].NUTS_ID = id})

\* C1 as claimed: the left-join output has exactly as many records as the
\* Region set, every Region appearing exactly once, whatever the filtered
\* subset (none or several Observations of one region code included).
C1_OneRecordPerRegion ==
    Merged =>
        /\ Len(merged_gdf.rows) = Len(gdf_nuts3.rows)
        /\ \A i \in 1..Len(gdf_nuts3.rows) :
              CountKey(merged_gdf.rows, gdf_nuts3.rows[i].NUTS_ID) = 1

\* C1 amended: every Region appears at least once in the left-join output:
\* once, without a value, if no filtered Observation carries its code, and
\* once per filtered Observation that carries its code otherwise; so the
\* output has exactly as many records as the Region set if and only if no
\* region code of the set is carried by several filtered Observations.
C1_RecordPerRegionAndMatch ==
    Merged =>
        /\ \A i \in 1..Len(gdf_nuts3.rows) :
              LET id == gdf_nuts3.rows[i].NUTS_ID
                  k == CountKey(df_filtered.rows, id)
              IN  /\ CountKey(merged_gdf.rows, id) = IF k = 0 THEN 1 ELSE k
                  /\ k = 0 => \E j \in 1..Len(merged_gdf.rows) :
                                 /\ merged_gdf.rows[j].NUTS_ID = id
                                 /\ merged_gdf.rows[j].VALUE = NaNNum
        /\ \A j \in 1..Len(merged_gdf.rows) :
              \E i \in 1..Len(gdf_nuts3.rows) :
                 merged_gdf.rows[j].NUTS_ID = gdf_nuts3.rows[i].NUTS_ID
        /\ Len(merged_gdf.rows) >= Len(gdf_nuts3.rows)
        /\ (Len(merged_gdf.rows) = Len(gdf_nuts3.rows)) <=>
              \A i \in 1..Len(gdf_nuts3.rows) :
                 CountKey(df_filtered.rows, gdf_nuts3.rows[i].NUTS_ID) <= 1

\* C1 witness: a join in which one Region has several matching Observations
\* and another has none.
C1_Witness ==
    /\ Merged
    /\ \E i, k \in 1..Len(gdf_nuts3.rows) :
          /\ CountKey(df_filtered.rows, gdf_nuts3.rows[i].NUTS_ID) > 1
          /\ CountKey(df_filtered.rows, gdf_nuts3.rows[k].NUTS_ID) = 0
    /\ Len(merged_gdf.rows) > Len(gdf_nuts3.rows)

\* C2 as claimed: when one workbook fails to parse and another parses (and
\* the parsed ones hold the required columns), load_all_excels does not
\* raise, warns once per failed file and returns exactly the rows of the
\* files that parsed.
C2_ParseFailureIsWarningOnly ==
    (/\ xlsCall.called
     /\ FailedFiles # <<>>
     /\ ParsedFiles # <<>>
     /\ RequiredPresent) =>
        /\ xlsCall.exc = "none"
        /\ warnings = [i \in 1..Len(FailedFiles) |-> FailedFiles[i].name]
        /\ df_all.rows = ParsedRows
        /\ errors = <<>>

\* C3 as claimed: load_all_excels on a folder without any .xlsx file raises
\* FileNotFoundError and no other kind of error.
C3_NoWorkbookIsNotFound ==
    (xlsCall.called /\ XlsxFiles = <<>>) => xlsCall.exc = "FileNotFoundError"

\* C4 as claimed: with workbooks in the folder, load_all_excels raises
\* ValueError when none parsed and when the combined columns lack a required
\* one, and returns only when all four are present.
C4_LoadErrorKinds ==
    (xlsCall.called /\ XlsxFiles # <<>>) =>
        /\ (ParsedFiles = <<>> \/ ~RequiredPresent) => xlsCall.exc = "ValueError"
        /\ xlsCall.exc = "none" =>
              /\ ParsedFiles # <<>>
              /\ Range(REQUIRED_COLS) \subseteq df_all.columns

\* C5 as claimed: load_shapefile raises ValueError when the source lacks
\* LEVL_CODE or NUTS_ID, and returns only when both are present.
C5_SchemaErrorKinds ==
    shpCall.called =>
        /\ ({NUTS_LEVEL_COL, SHAPEFILE_KEY} \subseteq shapefile.columns)
              <=> (shpCall.exc = "none")
        /\ shpCall.exc # "none" => shpCall.exc = "ValueError"

\* C6 as claimed: after a failed load the failure is shown as the error
\* message of that load, the run has halted, and no later step of the run
\* (filter, join, range, charts) has produced anything.
C6_FailedLoadShownAndHalts ==
    /\ shpCall.exc # "none" =>
          /\ errors = <<"error_loading_shapefile">>
          /\ pc = "stopped"
          /\ ~xlsCall.called
    /\ xlsCall.exc # "none" =>
          /\ errors = <<"error_loading_excel">>
          /\ pc = "stopped"
    /\ (shpCall.exc # "none" \/ xlsCall.exc # "none") =>
          /\ selected = NoSelection /\ df_filtered = NoDf /\ merged_gdf = NoGdf
          /\ val_range = NoRange /\ charts = NoCharts

\* C7 as claimed: whatever CRS the source declares, none included, the
\* Regions load_shapefile returns are in EPSG 4326.
C7_AlwaysGeographic ==
    (shpCall.called /\ shpCall.exc = "none") => gdf_nuts3.crs = "EPSG:4326"

\* C7 amended: the Regions load_shapefile returns are in EPSG 4326 whenever
\* the source declares a CRS, whichever it is; a source that declares none
\* is not reprojected and its Regions keep no CRS.
C7_GeographicIfDeclared ==
    (shpCall.called /\ shpCall.exc = "none") =>
        /\ shapefile.crs # "none" => gdf_nuts3.crs = "EPSG:4326"
        /\ shapefile.crs = "none" => gdf_nuts3.crs = "none"
        /\ Merged => merged_gdf.crs = gdf_nuts3.crs

\* C7 witness: a source in a projected CRS was loaded and came out in
\* EPSG 4326.
C7_Witness ==
    /\ shpCall.called /\ shpCall.exc = "none" /\ ~shpCall.cached
    /\ shapefile.crs = "EPSG:3035"
    /\ gdf_nuts3.crs = "EPSG:4326"
    /\ Len(gdf_nuts3.rows) > 0

\* The name fragments of a record that are present and not blank, stripped.
PresentNames(row, columns) ==
    LET keep == {i \in 1..Len(NAME_COLS) :
                    /\ NAME_COLS[i] \in columns
                    /\ row[NAME_COLS[i]].kind = "val"
                    /\ strip(row[NAME_COLS[i]].v) # <<>>}
    IN  [i \in 1..Len(NAME_COLS) |->
            IF i \in keep THEN <<strip(row[NAME_COLS[i]].v)>> ELSE <<>>]

\* C8 as claimed: a blank, absent or missing name contributes no text to the
\* label: the label is made of the present, non-blank names alone.
C8_BlankAndMissingDropped ==
    Labelled =>
        \A i \in 1..Len(merged_gdf.rows) :
            LET r == merged_gdf.rows[i]
                names == Flatten(PresentNames(r, merged_gdf.columns))
            IN  /\ Range(r.hover_parts) = Range(names)
                /\ r.hover_name = join(r.hover_parts) \o code_suffix(r, merged_gdf.columns)

\* Place of the first occurrence of x in items.
FirstSeen(items, x) == Min({k \in 1..Len(items) : items[k] = x})

\* C9: the name part of every label is made of at most three fragments of
\* the record, none occurring twice, each at its first-seen place in
\* level-1, level-2, level-3 order.
C9_FragmentsUniqueInOrder ==
    Labelled =>
        \A i \in 1..Len(merged_gdf.rows) :
            LET r == merged_gdf.rows[i]
                items == name_items(r, merged_gdf.columns)
                u == r.hover_parts
            IN  /\ Len(u) <= 3
                /\ \A a, b \in 1..Len(u) : a # b => u[a] # u[b]
                /\ Range(u) = Range(items) \ {<<>>}
                /\ \A a, b \in 1..Len(u) :
                      a < b => FirstSeen(items, u[a]) < FirstSeen(items, u[b])
                /\ r.hover_name = join(u) \o code_suffix(r, merged_gdf.columns)

\* C9 witness: a record whose level-1 and level-3 names are the same and its
\* level-2 name another, labelled with the two.
C9_Witness ==
    /\ Labelled
    /\ \E i \in 1..Len(merged_gdf.rows) :
          LET r == merged_gdf.rows[i]
              items == name_items(r, merged_gdf.columns)
          IN  /\ items[1] # <<>> /\ items[2] # <<>>
              /\ items[1] = items[3] /\ items[1] # items[2]
              /\ r.hover_parts = <<items[1], items[2]>>

\* The VALUE cells of the joined set that hold a value.
PresentCount ==
    Cardinality({i \in 1..Len(merged_gdf.rows) : merged_gdf.rows[i].VALUE.kind = "val"})

\* C10: when all present values of the joined set equal one value v, the
\* derived range is (v - 1e-3, v + 1e-3), which is not (v, v).
C10_ConstantDataRange ==
    Ranged =>
        \A v \in present_values(merged_gdf) :
            present_values(merged_gdf) = {v} =>
                /\ val_range = <<v - 4, v + 4>>
                /\ val_range # <<v, v>>
                /\ charts.drawn => charts.range_color = val_range

\* C10 witness: several present values, all 42, with the range derived.
C10_Witness ==
    /\ Ranged
    /\ PresentCount >= 2
    /\ present_values(merged_gdf) = {168000}
    /\ val_range = <<167996, 168004>>

\* The inputs are one Region EL301 and one Observation
\* (EL301, 2020, T, Y_LT5, 1000) and the selection is (2020, T, Y_LT5).
ExampleRun ==
    /\ <<shapefile, excelFolder>> = ExampleSource
    /\ Ranged
    /\ selected.year = 2020 /\ selected.sex = "T" /\ selected.age = "Y_LT5"

\* The joined set is the single record for EL301 with value 1000.
ExampleJoined ==
    /\ Len(merged_gdf.rows) = 1
    /\ merged_gdf.rows[1][SHAPEFILE_KEY] = Str("EL301")
    /\ merged_gdf.rows[1][VALUE_COL] = Num(4000000)

\* C11 (as stated): in the end-to-end example the joined set is the single
\* record for EL301 with value 1000, and the derived range has a lower bound
\* of at most 999.5 and an upper bound of at least 1000.5.
C11_ExampleRangeHalfWide ==
    ExampleRun =>
        /\ ExampleJoined
        /\ val_range[1] <= 4000000 - HALF
        /\ val_range[2] >= 4000000 + HALF

\* C11 (amended): in the end-to-end example the joined set is the single
\* record for EL301 with value 1000, and the derived range is exactly
\* (1000 - 1e-3, 1000 + 1e-3), the expansion of a range whose ends are equal.
C11_ExampleRangeEpsilonWide ==
    ExampleRun =>
        /\ ExampleJoined
        /\ val_range = <<4000000 - EPS, 4000000 + EPS>>
        /\ charts.drawn => charts.range_color = val_range

\* C11 witness: the example has run to its charts with the selection
\* (2020, T, Y_LT5) and the range (999.999, 1000.001).
C11_Witness ==
    /\ ExampleRun
    /\ ExampleJoined
    /\ charts.drawn
    /\ val_range = <<3999996, 4000004>>

\* No Observation has the selected year, sex and age group.
NoMatch ==
    ~ \E i \in 1..Len(df_all.rows) :
        /\ df_all.rows[i][YEAR_COL] = Num(selected.year)
        /\ df_all.rows[i][SEX_COL] = Str(selected.sex)
        /\ df_all.rows[i][AGE_COL] = Str(selected.age)

\* C12: for a selection that matches no Observation, filtering and joining
\* complete without error: the filtered subset is empty, every Region is
\* present once with an absent value, and the derived range is exactly (0, 1).
C12_NoMatchGivesDefaultRange ==
    (pc \in {"merge", "labels", "range", "charts", "done"} /\ NoMatch) =>
        /\ uncaught = "none" /\ errors = <<>>
        /\ df_filtered.rows = <<>>
        /\ Merged =>
              /\ Len(merged_gdf.rows) = Len(gdf_nuts3.rows)
              /\ \A i \in 1..Len(merged_gdf.rows) :
                    /\ merged_gdf.rows[i][SHAPEFILE_KEY] = gdf_nuts3.rows[i][SHAPEFILE_KEY]
                    /\ merged_gdf.rows[i][VALUE_COL] = NaNNum
        /\ Ranged =>
              /\ val_range = <<DEFAULT_MIN, DEFAULT_MAX>>
              /\ val_range = <<0, 4000>>

\* C12 witness: the Observations have the years 2020 and 2022, the slider
\* is set to 2021, and the run has derived the range for its two Regions.
C12_Witness ==
    /\ Ranged
    /\ years_available(df_all) = {2020, 2022}
    /\ selected.year = 2021
    /\ NoMatch
    /\ df_filtered.rows = <<>>
    /\ Len(merged_gdf.rows) = 2
    /\ val_range = <<0, 4000>>

\* C13 (as stated): each source is read at most once per path per session.
C13_ReadAtMostOnce ==
    /\ shpReads <= 1
    /\ xlsReads <= 1

\* A step of the session keeps an entry of the cache and does not read its
\* source again; a call that has returned has read the source exactly once in
\* the session and gives the value the cache holds; a call that raised leaves
\* no entry; a call that finds no entry reads the source.
MemoisedStep(cache, cacheNext, reads, readsNext, call, callNext, outputNext) ==
    /\ cache.filled => cacheNext = cache /\ readsNext = reads
    /\ (callNext.called /\ callNext.exc = "none") =>
          /\ cacheNext.filled
          /\ outputNext = cacheNext.value
          /\ readsNext = 1
    /\ (callNext.called /\ callNext.exc # "none") => ~cacheNext.filled
    /\ (~call.called /\ callNext.called /\ ~cache.filled) => readsNext = reads + 1

\* C13 (amended): once load_shapefile or load_all_excels has returned for a
\* path, every later call with that path in the session returns the output of
\* that call and does not read the source again; a call that raised is not
\* memoised, and the call of the next run reads the source again.
C13_ReturnedCallIsMemoised ==
    [][/\ MemoisedStep(shpCache, shpCache', shpReads, shpReads',
                       shpCall, shpCall', gdf_nuts3')
       /\ MemoisedStep(xlsCache, xlsCache', xlsReads, xlsReads',
                       xlsCall, xlsCall', df_all')]_vars

\* C13 witness: a later run of the session in which both calls were answered
\* from the cache, each source having been read once.
C13_Witness ==
    /\ shpCall.called /\ shpCall.cached /\ shpCall.exc = "none"
    /\ xlsCall.called /\ xlsCall.cached /\ xlsCall.exc = "none"
    /\ shpReads = 1 /\ xlsReads = 1
    /\ gdf_nuts3 = shpCache.value /\ gdf_nuts3.rows # <<>>
    /\ df_all = xlsCache.value /\ df_all.rows # <<>>

\* The derived range (lo, hi) of present values with minimum m and maximum M
\* contains [m, M] and is not empty; it is (mid - 0.5, mid + 0.5) when
\* 0 < M - m < 1e-3 and (m, M) when M - m >= 1e-3.
NeverShrinks(m, M, range) ==
    /\ range[1] <= m /\ M <= range[2] /\ range[1] < range[2]
    /\ (0 < M - m /\ M - m < NARROW) =>
          /\ 2 * (range[1] + HALF) = m + M
          /\ 2 * (range[2] - HALF) = m + M
    /\ M - m >= NARROW => range = <<m, M>>

\* Even counts of 1/4000 around zero: their midpoints are counts too.
GridValues == {2 * k : k \in (0 - NARROW)..NARROW}

\* C14: the value-range derivation never shrinks a range: for every non-empty
\* set of present values with minimum m and maximum M the derived range
\* (lo, hi) has lo <= m, M <= hi and lo < hi, is (mid - 0.5, mid + 0.5) with
\* mid = (m + M) / 2 when 0 < M - m < 1e-3, and is (m, M) when M - m >= 1e-3.
C14_RangeNeverShrinks ==
    /\ (Ranged /\ present_values(merged_gdf) # {}) =>
          NeverShrinks(Min(present_values(merged_gdf)),
                       Max(present_values(merged_gdf)), val_range)
    /\ Ranged =>
          \A m \in GridValues, M \in GridValues :
              m <= M => NeverShrinks(m, M, ExpandRange(m, M))

\* C14 witness: the present values are 0 and 0.0005, less than 1e-3 apart,
\* and the derived range is (0.00025 - 0.5, 0.00025 + 0.5).
C14_Witness ==
    /\ Ranged
    /\ present_values(merged_gdf) = {0, 2}
    /\ val_range = <<1 - HALF, 1 + HALF>>
    /\ val_range = <<0 - 1999, 2001>>

\* C15: in Greek_Data_Maps.py, for every observed sex category the user can
\* select (F, M, T or an unrecognised value), the sex label in the bar-chart
\* title is the label the sex dropdown shows for the selection, and the
\* selection used for filtering is the original category of that label.
C15_TitleShowsSelectedSexLabel ==
    (variant = "maps" /\ charts.drawn) =>
        /\ charts.title_sex = selected.sex_display
        /\ selected.sex \in Range(sexes_available(df_all))
        /\ sex_label(selected.sex) = selected.sex_display
        /\ \A i \in 1..Len(df_filtered.rows) :
              sex_label(df_filtered.rows[i][SEX_COL].v) = selected.sex_display

\* Of the recognised categories F, M and T alone the statement of C15 holds.
RecognisedSexTitle ==
    (variant = "maps" /\ charts.drawn /\ selected.sex \in {"F", "M", "T"}
        /\ "Total" \notin Range(sexes_available(df_all))) =>
            /\ charts.title_sex = selected.sex_display
            /\ sex_label(selected.sex) = selected.sex_display

(***************************************************************************)
(* The claims about the loaders fail through tr() alone: the script that   *)
(* builds its texts with f-strings satisfies each of them.                 *)
(***************************************************************************)
PopulationScriptLoads ==
    variant = "population" =>
        /\ C2_ParseFailureIsWarningOnly
        /\ C3_NoWorkbookIsNotFound
        /\ C4_LoadErrorKinds
        /\ C5_SchemaErrorKinds
        /\ C6_FailedLoadShownAndHalts

\* Whatever the script, a run in which a load failed goes no further.
FailedLoadHalts ==
    (shpCall.exc # "none" \/ xlsCall.exc # "none") =>
        /\ pc \in {"stopped", "crashed"}
        /\ selected = NoSelection /\ df_filtered = NoDf /\ merged_gdf = NoGdf
        /\ val_range = NoRange /\ charts = NoCharts

====
